---- MODULE Spec2Model ----
(***************************************************************************)
(* Layout reconstruction of the pdf_to_excel mode of src/server.py:        *)
(* geometry helpers (_bbox_iou, _cluster_positions, _nearest_index), the   *)
(* table detector with IoU deduplication, the quality filter, the          *)
(* free-word partition, line clustering, fragment merging, element         *)
(* ordering and the grid writer.                                           *)
(*                                                                         *)
(* Coordinates are Python floats in the source.  The model uses exact      *)
(* rationals <<n, d>> (d > 0, lowest terms); inputs are integers.          *)
(***************************************************************************)
EXTENDS Integers, Sequences, FiniteSets, TLC

VARIABLES
    fdoc,          \* the document: per page, what the collaborators return
    pc,            \* position of convert_file in the page loop
    idx,           \* page index of the loop at line 804
    outcome,       \* history: what each strategy of this page did
    raw,           \* history: candidates in processing order, with their fate
    found,         \* _extract_tables_with_fallback: found
    seen_bboxes,   \* _extract_tables_with_fallback: seen_bboxes
    table_objs,    \* convert_file: table_objs
    table_bboxes,  \* convert_file: table_bboxes
    rejected,      \* history: bboxes the quality filter discarded
    words,         \* page.get_text("words") of this page
    free_words,    \* convert_file: free_words
    y_centers,     \* convert_file: y_centers
    lines_map,     \* convert_file: lines_map (insertion ordered)
    elements,      \* convert_file: elements
    row_cursor,    \* convert_file: row_cursor
    wb,            \* the workbook: its sheets in creation order, ws the last
    call,          \* arguments of a geometry helper under test
    ret            \* its result

vars == <<fdoc, pc, idx, outcome, raw, found, seen_bboxes, table_objs,
          table_bboxes, rejected, words, free_words, y_centers, lines_map,
          elements, row_cursor, wb, call, ret>>

-----------------------------------------------------------------------------
(* Exact arithmetic standing for float arithmetic.                         *)

Abs(x) == IF x < 0 THEN -x ELSE x

Max(x, y) == IF x >= y THEN x ELSE y

Min(x, y) == IF x <= y THEN x ELSE y

RECURSIVE GCD(_, _)
GCD(m, n) == IF n = 0 THEN m ELSE GCD(n, m % n)

\* n / d in lowest terms, d > 0.
Rat(n, d) ==
    LET g == GCD(Abs(n), d)
    IN  <<n \div g, d \div g>>

Zero == <<0, 1>>

One == <<1, 1>>

RInt(i) == <<i, 1>>

RLe(p, q) == p[1] * q[2] <= q[1] * p[2]

RLt(p, q) == p[1] * q[2] < q[1] * p[2]

RAdd(p, q) == Rat(p[1] * q[2] + q[1] * p[2], p[2] * q[2])

RSub(p, q) == Rat(p[1] * q[2] - q[1] * p[2], p[2] * q[2])

RAbs(p) == <<Abs(p[1]), p[2]>>

RDivInt(p, k) == Rat(p[1], p[2] * k)

-----------------------------------------------------------------------------
(* _bbox_iou, src/server.py 277-289.  A box is <<x0, y0, x1, y1>>.         *)

\* A slip of _bbox_iou: the intersection's sides are not clamped at 0.
BboxIouUnclamped(a, b) ==
    LET ix0 == Max(a[1], b[1])
        iy0 == Max(a[2], b[2])
        ix1 == Min(a[3], b[3])
        iy1 == Min(a[4], b[4])
        inter == (ix1 - ix0) * (iy1 - iy0)
        area_a == Max(0, (a[3] - a[1]) * (a[4] - a[2]))
        area_b == Max(0, (b[3] - b[1]) * (b[4] - b[2]))
        union == area_a + area_b - inter
    IN  IF inter <= 0 THEN Zero
        ELSE IF union > 0 THEN Rat(inter, union) ELSE Zero

BboxIou(a, b) ==
    LET ix0 == Max(a[1], b[1])
        iy0 == Max(a[2], b[2])
        ix1 == Min(a[3], b[3])
        iy1 == Min(a[4], b[4])
        iw == Max(0, ix1 - ix0)
        ih == Max(0, iy1 - iy0)
        inter == iw * ih
        area_a == Max(0, (a[3] - a[1]) * (a[4] - a[2]))
        area_b == Max(0, (b[3] - b[1]) * (b[4] - b[2]))
        union == area_a + area_b - inter
    IN  IF inter <= 0 THEN Zero
        ELSE IF union > 0 THEN Rat(inter, union) ELSE Zero

-----------------------------------------------------------------------------
(* _cluster_positions, src/server.py 251-261.                              *)

\* sorted(values): ascending; equal values are indistinguishable.
RECURSIVE InsertSorted(_, _)
InsertSorted(s, v) ==
    IF s = <<>> THEN <<v>>
    ELSE IF RLt(v, Head(s)) THEN <<v>> \o s
    ELSE <<Head(s)>> \o InsertSorted(Tail(s), v)

RECURSIVE Sorted(_)
Sorted(values) ==
    IF values = <<>> THEN <<>>
    ELSE InsertSorted(Sorted(SubSeq(values, 1, Len(values) - 1)),
                      values[Len(values)])

Last(s) == s[Len(s)]

Front(s) == SubSeq(s, 1, Len(s) - 1)

\* A slip of the loop: a value is compared with the first value of the
\* current cluster instead of the last.
RECURSIVE ClusterLoopFirst(_, _, _, _)
ClusterLoopFirst(values, i, tolerance, clusters) ==
    IF i > Len(values) THEN clusters
    ELSE LET v == values[i]
             cur == Last(clusters)
         IN  IF RLe(RAbs(RSub(v, Head(cur))), tolerance)
             THEN ClusterLoopFirst(values, i + 1, tolerance,
                                   Front(clusters) \o <<Append(cur, v)>>)
             ELSE ClusterLoopFirst(values, i + 1, tolerance,
                                   Append(clusters, <<v>>))

\* The loop of lines 256-260 over the values from position i on.
RECURSIVE ClusterLoop(_, _, _, _)
ClusterLoop(values, i, tolerance, clusters) ==
    IF i > Len(values) THEN clusters
    ELSE LET v == values[i]
             cur == Last(clusters)
         IN  IF RLe(RAbs(RSub(v, Last(cur))), tolerance)
             THEN ClusterLoop(values, i + 1, tolerance,
                              Front(clusters) \o <<Append(cur, v)>>)
             ELSE ClusterLoop(values, i + 1, tolerance,
                              Append(clusters, <<v>>))

\* A slip of line 254: the values are taken in the order given.
ClustersUnsorted(values, tolerance) ==
    IF values = <<>> THEN <<>>
    ELSE ClusterLoop(values, 2, tolerance, << <<values[1]>> >>)

Clusters(values, tolerance) ==
    IF values = <<>> THEN <<>>
    ELSE LET sv == Sorted(values)
         IN  ClusterLoop(sv, 2, tolerance, << <<sv[1]>> >>)

RECURSIVE RSum(_)
RSum(c) == IF c = <<>> THEN Zero ELSE RAdd(Head(c), RSum(Tail(c)))

Mean(c) == RDivInt(RSum(c), Len(c))

ClusterPositions(values, tolerance) ==
    LET cs == Clusters(values, tolerance)
    IN  [k \in 1..Len(cs) |-> Mean(cs[k])]

-----------------------------------------------------------------------------
(* _nearest_index, src/server.py 264-274.  Indices are 0-based as in the    *)
(* source; centers[i] of the source is centers[i + 1] here.                *)

\* A slip of line 271: <= in place of <, the last minimum wins.
RECURSIVE NearestLoopLast(_, _, _, _, _)
NearestLoopLast(value, centers, i, best_idx, best_dist) ==
    IF i >= Len(centers) THEN best_idx
    ELSE LET d == RAbs(RSub(value, centers[i + 1]))
         IN  IF RLe(d, best_dist)
             THEN NearestLoopLast(value, centers, i + 1, i, d)
             ELSE NearestLoopLast(value, centers, i + 1, best_idx, best_dist)

RECURSIVE NearestLoop(_, _, _, _, _)
NearestLoop(value, centers, i, best_idx, best_dist) ==
    IF i >= Len(centers) THEN best_idx
    ELSE LET d == RAbs(RSub(value, centers[i + 1]))
         IN  IF RLt(d, best_dist)
             THEN NearestLoop(value, centers, i + 1, i, d)
             ELSE NearestLoop(value, centers, i + 1, best_idx, best_dist)

NearestIndex(value, centers) ==
    IF centers = <<>> THEN 0
    ELSE NearestLoop(value, centers, 1, 0, RAbs(RSub(value, centers[1])))

-----------------------------------------------------------------------------
(* Texts are sequences of one-character strings.                           *)

Letters == {"J", "o", "h", "n", "a", "b", "c", "d"}

Digits == {"1", "2"}

Whitespace == {" "}

\* None of Python, as a cell value: no text is made of this element.
NoneVal == <<"None">>

\* str.isalpha: every character alphabetic and at least one character.
IsAlpha(t) == t # <<>> /\ \A k \in 1..Len(t) : t[k] \in Letters

RECURSIVE LStrip(_)
LStrip(t) ==
    IF t # <<>> /\ Head(t) \in Whitespace THEN LStrip(Tail(t)) ELSE t

RECURSIVE RStrip(_)
RStrip(t) ==
    IF t # <<>> /\ Last(t) \in Whitespace THEN RStrip(Front(t)) ELSE t

\* str.strip
Strip(t) == RStrip(LStrip(t))

-----------------------------------------------------------------------------
(* _table_shape_quality, src/server.py 316-324.                            *)

RECURSIVE MaxLen(_)
MaxLen(data) ==
    IF data = <<>> THEN 0 ELSE Max(Len(Head(data)), MaxLen(Tail(data)))

NonEmptyCell(c) == c # NoneVal /\ Strip(c) # <<>>

RECURSIVE CountNonEmpty(_)
CountNonEmpty(r) ==
    IF r = <<>> THEN 0
    ELSE (IF NonEmptyCell(Head(r)) THEN 1 ELSE 0) + CountNonEmpty(Tail(r))

RECURSIVE NonEmptyCells(_)
NonEmptyCells(data) ==
    IF data = <<>> THEN 0
    ELSE CountNonEmpty(Head(data)) + NonEmptyCells(Tail(data))

TableShapeQuality(data) ==
    [rows |-> Len(data), cols |-> MaxLen(data), non_empty |-> NonEmptyCells(data)]

-----------------------------------------------------------------------------
(* _merge_fragmented_words, src/server.py 327-347.  A word is a record     *)
(* [x0, x1, y0, text, i]; i is the position of the token in the page's     *)
(* word list, carried along by dict(w) like every other key.               *)

\* A slip of line 336: a gap of exactly 12 does not merge.
ShouldMergeStrict(prev, w) ==
    /\ w.x0 - prev.x1 < 12
    /\ \/ Len(prev.text) <= 3
       \/ Len(w.text) <= 3
       \/ (IsAlpha(prev.text) /\ IsAlpha(w.text))

ShouldMerge(prev, w) ==
    /\ w.x0 - prev.x1 <= 12
    /\ \/ Len(prev.text) <= 3
       \/ Len(w.text) <= 3
       \/ (IsAlpha(prev.text) /\ IsAlpha(w.text))

Joiner(prev, w) ==
    IF IsAlpha(prev.text) /\ IsAlpha(w.text) THEN <<>> ELSE <<" ">>

RECURSIVE MergeLoop(_, _, _)
MergeLoop(ws_, k, merged) ==
    IF k > Len(ws_) THEN merged
    ELSE LET w == ws_[k]
             prev == Last(merged)
         IN  IF ShouldMerge(prev, w)
             THEN MergeLoop(ws_, k + 1,
                      Front(merged) \o
                      <<[prev EXCEPT
                           !.text = Strip(prev.text \o Joiner(prev, w) \o w.text),
                           !.x1 = w.x1]>>)
             ELSE MergeLoop(ws_, k + 1, Append(merged, w))

MergeFragmentedWords(ws_) ==
    IF ws_ = <<>> THEN ws_ ELSE MergeLoop(ws_, 2, <<ws_[1]>>)

-----------------------------------------------------------------------------
(* list.sort(key=...), stable: an element goes after every element whose    *)
(* key is not greater.                                                     *)

RECURSIVE InsertByX0(_, _)
InsertByX0(s, w) ==
    IF s = <<>> THEN <<w>>
    ELSE IF w.x0 < Head(s).x0 THEN <<w>> \o s
    ELSE <<Head(s)>> \o InsertByX0(Tail(s), w)

RECURSIVE SortByX0(_)
SortByX0(s) ==
    IF s = <<>> THEN <<>> ELSE InsertByX0(SortByX0(Front(s)), Last(s))

RECURSIVE InsertByY(_, _)
InsertByY(s, e) ==
    IF s = <<>> THEN <<e>>
    ELSE IF RLt(e.y, Head(s).y) THEN <<e>> \o s
    ELSE <<Head(s)>> \o InsertByY(Tail(s), e)

\* A slip of the element sort: an unstable sort (equal keys swap).
RECURSIVE InsertByYUnstable(_, _)
InsertByYUnstable(s, e) ==
    IF s = <<>> THEN <<e>>
    ELSE IF RLe(e.y, Head(s).y) THEN <<e>> \o s
    ELSE <<Head(s)>> \o InsertByYUnstable(Tail(s), e)

RECURSIVE SortByYUnstable(_)
SortByYUnstable(s) ==
    IF s = <<>> THEN <<>>
    ELSE InsertByYUnstable(SortByYUnstable(Front(s)), Last(s))

RECURSIVE SortByYStable(_)
SortByYStable(s) ==
    IF s = <<>> THEN <<>> ELSE InsertByY(SortByYStable(Front(s)), Last(s))

\* elements.sort(key=lambda e: e["y"]), line 853
SortByY(s) == SortByYStable(s)

-----------------------------------------------------------------------------
(* _extract_tables_with_fallback, src/server.py 292-313.  A table is a     *)
(* record [bbox, data]: data is what t.extract() returns for it.           *)

\* The two entries of configs.
NumConfigs == 2

DedupThreshold == <<3, 4>>

\* A slip of the duplicate test: only the last accepted bbox is compared.
IsDuplicateLastOnly(bbox, seen) ==
    seen # <<>> /\ RLt(DedupThreshold, BboxIou(bbox, Last(seen)))

\* A slip of the duplicate test: >= in place of >.
IsDuplicateGe(bbox, seen) ==
    \E k \in 1..Len(seen) : RLe(DedupThreshold, BboxIou(bbox, seen[k]))

\* A slip of the duplicate test: a threshold of 0.9.
IsDuplicateHigh(bbox, seen) ==
    \E k \in 1..Len(seen) : RLt(<<9, 10>>, BboxIou(bbox, seen[k]))

\* line 308
IsDuplicate(bbox, seen) ==
    \E k \in 1..Len(seen) : RLt(DedupThreshold, BboxIou(bbox, seen[k]))

\* The loop of lines 306-312 over the tables from position k on.
RECURSIVE DedupLoop(_, _, _, _)
DedupLoop(tables, k, cfg, acc) ==
    IF k > Len(tables) THEN acc
    ELSE LET t == tables[k]
         IN  IF IsDuplicate(t.bbox, acc.seen)
             THEN DedupLoop(tables, k + 1, cfg,
                    [acc EXCEPT !.raw = Append(@, [bbox |-> t.bbox, cfg |-> cfg,
                                                    kept |-> FALSE])])
             ELSE DedupLoop(tables, k + 1, cfg,
                    [found |-> Append(acc.found, t),
                     seen |-> Append(acc.seen, t.bbox),
                     raw |-> Append(acc.raw, [bbox |-> t.bbox, cfg |-> cfg,
                                              kept |-> TRUE])])

\* lines 301-305: a strategy that throws or returns nothing gives no table.
StrategyTables(s) == IF s.kind = "tables" THEN s.tables ELSE <<>>

\* A slip of the try/except: the exception leaves the page loop.
AfterStrategyNoCatch(kind, cfg) ==
    IF kind = "throw" THEN "failed"
    ELSE IF cfg + 1 < NumConfigs THEN "find" ELSE "filter"

\* Where control goes after the strategy cfg: the next one, or line 810.
AfterStrategy(kind, cfg) ==
    IF cfg + 1 < NumConfigs THEN "find" ELSE "filter"

-----------------------------------------------------------------------------
(* The pdf_to_excel branch of convert_file, src/server.py 804-899.         *)

\* A slip of the filter at line 816: the cell count is not looked at.
IsWeakNoCount(data) ==
    LET q == TableShapeQuality(data)
    IN  q.rows < 2 \/ q.cols < 2

\* line 816
IsWeak(data) ==
    LET q == TableShapeQuality(data)
    IN  q.rows < 2 \/ q.cols < 2 \/ q.non_empty < 4

\* The loop of lines 812-819 over found from position k on.
RECURSIVE FilterLoop(_, _, _)
FilterLoop(fnd, k, acc) ==
    IF k > Len(fnd) THEN acc
    ELSE LET t == fnd[k]
         IN  IF IsWeak(t.data)
             THEN FilterLoop(fnd, k + 1,
                             [acc EXCEPT !.rejected = Append(@, t.bbox)])
             ELSE FilterLoop(fnd, k + 1,
                             [acc EXCEPT !.objs = Append(@, t),
                                         !.bboxes = Append(@, t.bbox)])

\* A slip of _inside_table: the margin of 1 is left out.
InsideTableNoMargin(x, y, bboxes) ==
    \E k \in 1..Len(bboxes) :
        /\ RLe(RInt(bboxes[k][1]), x) /\ RLe(x, RInt(bboxes[k][3]))
        /\ RLe(RInt(bboxes[k][2]), y) /\ RLe(y, RInt(bboxes[k][4]))

\* _inside_table, lines 821-825
InsideTable(x, y, bboxes) ==
    \E k \in 1..Len(bboxes) :
        /\ RLe(RInt(bboxes[k][1] - 1), x) /\ RLe(x, RInt(bboxes[k][3] + 1))
        /\ RLe(RInt(bboxes[k][2] - 1), y) /\ RLe(y, RInt(bboxes[k][4] + 1))

NoTable == [bbox |-> <<>>, data |-> <<>>]

\* lines 828-829
TableElements(objs) ==
    [k \in 1..Len(objs) |->
        [kind |-> "table", y |-> RInt(objs[k].bbox[2]), table |-> objs[k],
         spans |-> <<>>]]

CenterX(w) == Rat(w.x0 + w.x1, 2)

CenterY(w) == Rat(w.y0 + w.y1, 2)

\* The loop of lines 833-840 over the words from position k on.
RECURSIVE FreeLoop(_, _, _, _)
FreeLoop(wds, k, bboxes, acc) ==
    IF k > Len(wds) THEN acc
    ELSE LET w == wds[k]
             txt == Strip(w.text)
         IN  IF txt = <<>> THEN FreeLoop(wds, k + 1, bboxes, acc)
             ELSE IF InsideTable(CenterX(w), CenterY(w), bboxes)
                  THEN FreeLoop(wds, k + 1, bboxes, acc)
             ELSE FreeLoop(wds, k + 1, bboxes,
                      Append(acc, [x0 |-> w.x0, x1 |-> w.x1, y0 |-> w.y0,
                                   text |-> txt, i |-> k]))

\* tolerance=3.2, line 843
LineTolerance == <<16, 5>>

RECURSIVE Y0s(_)
Y0s(fw) == IF fw = <<>> THEN <<>> ELSE <<RInt(Head(fw).y0)>> \o Y0s(Tail(fw))

\* lines_map.setdefault(ridx, []).append(w): a dict keeps insertion order.
RECURSIVE SetDefaultAppend(_, _, _)
SetDefaultAppend(map, ridx, w) ==
    IF map = <<>> THEN <<[ridx |-> ridx, line_words |-> <<w>>]>>
    ELSE IF Head(map).ridx = ridx
         THEN <<[Head(map) EXCEPT !.line_words = Append(@, w)]>> \o Tail(map)
         ELSE <<Head(map)>> \o SetDefaultAppend(Tail(map), ridx, w)

\* The loop of lines 845-847 over free_words from position k on.
RECURSIVE AssignLoop(_, _, _, _)
AssignLoop(fw, k, centers, map) ==
    IF k > Len(fw) THEN map
    ELSE AssignLoop(fw, k + 1, centers,
            SetDefaultAppend(map, NearestIndex(RInt(fw[k].y0), centers), fw[k]))

\* A slip of line 849: the words of a line are left in page order.
SortedMapUnsorted(map) == map

\* line 849: the sort is in place, so lines_map holds the sorted lists.
SortedMap(map) ==
    [k \in 1..Len(map) |->
        [map[k] EXCEPT !.line_words = SortByX0(map[k].line_words)]]

\* lines 850-851
LineElements(map, centers) ==
    [k \in 1..Len(map) |->
        [kind |-> "line", y |-> centers[map[k].ridx + 1], table |-> NoTable,
         spans |-> MergeFragmentedWords(map[k].line_words)]]

-----------------------------------------------------------------------------
(* The sheet: cells is a function from <<row, column>> to a cell           *)
(* [value, border, bold]; widths is column_dimensions[...].width.          *)

BlankCell == [value |-> NoneVal, border |-> "none", bold |-> FALSE]

EmptySheet == [cells |-> <<>>, widths |-> <<>>]

Sentinel == <<"No extractable text found on this page.">>

\* ws.cell(r, c): the cell, created blank when it does not exist.
CellAt(cells, r, c) ==
    IF <<r, c>> \in DOMAIN cells THEN cells[<<r, c>>] ELSE BlankCell

Put(cells, r, c, cell) ==
    [k \in (DOMAIN cells) \cup {<<r, c>>} |->
        IF k = <<r, c>> THEN cell ELSE cells[k]]

\* A value of None leaves the cell's value as it is (openpyxl).
WithValue(cell, v) == IF v = NoneVal THEN cell ELSE [cell EXCEPT !.value = v]

RECURSIVE SetMax(_)
SetMax(S) ==
    IF S = {} THEN 0
    ELSE LET x == CHOOSE x \in S : TRUE
         IN  Max(x, SetMax(S \ {x}))

\* ws.max_row, ws.max_column: 1 on a sheet without cells.
MaxRow(cells) == Max(1, SetMax({k[1] : k \in DOMAIN cells}))

MaxColumn(cells) == Max(1, SetMax({k[2] : k \in DOMAIN cells}))

\* A slip of line 870: a gap of exactly 80 skips a column too.
RECURSIVE LineLoopGe(_, _, _, _, _)
LineLoopGe(spans, k, row, col, cells) ==
    IF k > Len(spans) THEN cells
    ELSE LET sp == spans[k]
             written == Put(cells, row, col,
                            [WithValue(CellAt(cells, row, col), sp.text)
                                EXCEPT !.bold = FALSE])
             skip == IF k < Len(spans) /\ spans[k + 1].x0 - sp.x1 >= 80
                     THEN 1 ELSE 0
         IN  LineLoopGe(spans, k + 1, row, col + 1 + skip, written)

\* The loop of lines 863-871 over the spans from position k on (k = i + 1).
RECURSIVE LineLoop(_, _, _, _, _)
LineLoop(spans, k, row, col, cells) ==
    IF k > Len(spans) THEN cells
    ELSE LET sp == spans[k]
             written == Put(cells, row, col,
                            [WithValue(CellAt(cells, row, col), sp.text)
                                EXCEPT !.bold = FALSE])
             skip == IF k < Len(spans) /\ spans[k + 1].x0 - sp.x1 > 80
                     THEN 1 ELSE 0
         IN  LineLoop(spans, k + 1, row, col + 1 + skip, written)

\* raw_val.strip() if isinstance(raw_val, str) else raw_val, line 878
CellValue(raw_val) == IF raw_val = NoneVal THEN NoneVal ELSE Strip(raw_val)

\* The loop of line 877 over one row of the table (cidx from 1).
RECURSIVE TableRowLoop(_, _, _, _, _)
TableRowLoop(row_vals, cidx, row, ridx, cells) ==
    IF cidx > Len(row_vals) THEN cells
    ELSE LET c0 == WithValue(CellAt(cells, row, cidx), CellValue(row_vals[cidx]))
             c1 == [c0 EXCEPT !.border = "D0D7E2"]
             c2 == IF ridx = 0 THEN [c1 EXCEPT !.bold = TRUE] ELSE c1
         IN  TableRowLoop(row_vals, cidx + 1, row, ridx, Put(cells, row, cidx, c2))

\* The loop of line 876 over the rows of the table (ridx from 0).
RECURSIVE TableLoop(_, _, _, _)
TableLoop(data, ridx, row_cursor_, cells) ==
    IF ridx >= Len(data) THEN cells
    ELSE TableLoop(data, ridx + 1, row_cursor_,
            TableRowLoop(data[ridx + 1], 1, row_cursor_ + ridx, ridx, cells))

\* A slip of line 884: no separator row after a table.
TableAdvanceNoGap(data) == Max(1, Len(data))

\* line 884
TableAdvance(data) == Max(1, Len(data)) + 1

\* The loop of lines 859-884 over the elements from position k on.
RECURSIVE ElementLoop(_, _, _)
ElementLoop(els, k, acc) ==
    IF k > Len(els) THEN acc
    ELSE LET el == els[k]
         IN  IF el.kind = "line"
             THEN ElementLoop(els, k + 1,
                    [cells |-> LineLoop(el.spans, 1, acc.row_cursor, 1, acc.cells),
                     row_cursor |-> acc.row_cursor + 1])
             ELSE ElementLoop(els, k + 1,
                    [cells |-> TableLoop(el.table.data, 0, acc.row_cursor, acc.cells),
                     row_cursor |-> acc.row_cursor + TableAdvance(el.table.data)])

\* ws.cell(r, c) over a rectangle creates its missing cells.
Touch(cells, R, C) ==
    [k \in (DOMAIN cells) \cup ((1..R) \X (1..C)) |->
        IF k \in DOMAIN cells THEN cells[k] ELSE BlankCell]

\* lines 887-897
ColumnWidths(cells) ==
    LET max_col == Min(MaxColumn(cells), 60)
        rows == 1..Min(MaxRow(cells), 4000)
        mx(c) == SetMax({Len(CellAt(cells, r, c).value) :
                           r \in {q \in rows : CellAt(cells, q, c).value # NoneVal}})
        scaled(c) == Rat(19 * mx(c), 20)
        lo(c) == IF RLt(scaled(c), RInt(10)) THEN RInt(10) ELSE scaled(c)
    IN  [c \in 1..max_col |-> IF RLt(RInt(50), lo(c)) THEN RInt(50) ELSE lo(c)]

Autofit(sheet) ==
    [cells |-> Touch(sheet.cells, Min(MaxRow(sheet.cells), 4000),
                     Min(MaxColumn(sheet.cells), 60)),
     widths |-> ColumnWidths(sheet.cells)]

\* _apply_visible_borders, lines 350-372
HasValue(cell) == cell.value # NoneVal /\ Strip(cell.value) # <<>>

SetMin(S) == CHOOSE x \in S : \A y \in S : x <= y

\* A slip of lines 370-372: the whole used range of the sheet is bordered.
ApplyVisibleBordersAll(cells) ==
    LET all == Touch(cells, MaxRow(cells), MaxColumn(cells))
        used == {k \in DOMAIN all : HasValue(all[k])}
    IN  IF used = {} THEN all
        ELSE [k \in DOMAIN all |-> [all[k] EXCEPT !.border = "6B7280"]]

ApplyVisibleBorders(cells) ==
    LET all == Touch(cells, MaxRow(cells), MaxColumn(cells))
        used == {k \in DOMAIN all : HasValue(all[k])}
    IN  IF used = {} THEN all
        ELSE LET min_row == SetMin({k[1] : k \in used})
                 max_row == SetMax({k[1] : k \in used})
                 min_col == SetMin({k[2] : k \in used})
                 max_col == SetMax({k[2] : k \in used})
                 rect == (min_row..max_row) \X (min_col..max_col)
             IN  [k \in (DOMAIN all) \cup rect |->
                    IF k \in rect
                    THEN [(IF k \in DOMAIN all THEN all[k] ELSE BlankCell)
                             EXCEPT !.border = "6B7280"]
                    ELSE all[k]]

-----------------------------------------------------------------------------
(* The page loop of convert_file, one action per stage of a page.          *)

Page == fdoc[idx + 1]

Ws == wb[Len(wb)]

\* A slip of line 807: row_cursor is set once, before the page loop.
StartPageKeepCursor ==
    /\ pc = "page"
    /\ idx < Len(fdoc)
    /\ wb' = Append(wb, EmptySheet)
    /\ outcome' = <<>>
    /\ raw' = <<>>
    /\ found' = <<>>
    /\ seen_bboxes' = <<>>
    /\ table_objs' = <<>>
    /\ table_bboxes' = <<>>
    /\ rejected' = <<>>
    /\ words' = <<>>
    /\ free_words' = <<>>
    /\ y_centers' = <<>>
    /\ lines_map' = <<>>
    /\ elements' = <<>>
    /\ pc' = "find"
    /\ UNCHANGED <<fdoc, idx, row_cursor, call, ret>>

\* lines 805-807: the sheet of the page is created, the page's locals are new.
StartPage ==
    /\ pc = "page"
    /\ idx < Len(fdoc)
    /\ wb' = Append(wb, EmptySheet)
    /\ row_cursor' = 1
    /\ outcome' = <<>>
    /\ raw' = <<>>
    /\ found' = <<>>
    /\ seen_bboxes' = <<>>
    /\ table_objs' = <<>>
    /\ table_bboxes' = <<>>
    /\ rejected' = <<>>
    /\ words' = <<>>
    /\ free_words' = <<>>
    /\ y_centers' = <<>>
    /\ lines_map' = <<>>
    /\ elements' = <<>>
    /\ pc' = "find"
    /\ UNCHANGED <<fdoc, idx, call, ret>>

\* lines 300-312: one strategy of _extract_tables_with_fallback.
FindTables ==
    /\ pc = "find"
    /\ LET cfg == Len(outcome)
           s == Page.strategies[cfg + 1]
           r == DedupLoop(StrategyTables(s), 1, cfg,
                          [found |-> found, seen |-> seen_bboxes, raw |-> raw])
       IN  /\ found' = r.found
           /\ seen_bboxes' = r.seen
           /\ raw' = r.raw
           /\ outcome' = Append(outcome, s.kind)
           /\ pc' = AfterStrategy(s.kind, cfg)
    /\ UNCHANGED <<fdoc, idx, table_objs, table_bboxes, rejected, words,
                   free_words, y_centers, lines_map, elements, row_cursor, wb,
                   call, ret>>

\* lines 809-819
FilterTables ==
    /\ pc = "filter"
    /\ LET r == FilterLoop(found, 1,
                    [objs |-> <<>>, bboxes |-> <<>>, rejected |-> <<>>])
       IN  /\ table_objs' = r.objs
           /\ table_bboxes' = r.bboxes
           /\ rejected' = r.rejected
    /\ pc' = "words"
    /\ UNCHANGED <<fdoc, idx, outcome, raw, found, seen_bboxes, words,
                   free_words, y_centers, lines_map, elements, row_cursor, wb,
                   call, ret>>

\* lines 827-840
PartitionWords ==
    /\ pc = "words"
    /\ elements' = TableElements(table_objs)
    /\ words' = Page.words
    /\ free_words' = FreeLoop(Page.words, 1, table_bboxes, <<>>)
    /\ pc' = "lines"
    /\ UNCHANGED <<fdoc, idx, outcome, raw, found, seen_bboxes, table_objs,
                   table_bboxes, rejected, y_centers, lines_map, row_cursor,
                   wb, call, ret>>

\* lines 842-853
BuildLines ==
    /\ pc = "lines"
    /\ IF free_words # <<>>
       THEN LET centers == ClusterPositions(Y0s(free_words), LineTolerance)
                map == SortedMap(AssignLoop(free_words, 1, centers, <<>>))
            IN  /\ y_centers' = centers
                /\ lines_map' = map
                /\ elements' = SortByY(elements \o LineElements(map, centers))
       ELSE /\ elements' = SortByY(elements)
            /\ UNCHANGED <<y_centers, lines_map>>
    /\ pc' = "write"
    /\ UNCHANGED <<fdoc, idx, outcome, raw, found, seen_bboxes, table_objs,
                   table_bboxes, rejected, words, free_words, row_cursor, wb,
                   call, ret>>

\* A slip of the empty page: the sheet is left without any cell.
WriteSentinelEmpty ==
    /\ pc = "write"
    /\ elements = <<>>
    /\ idx' = idx + 1
    /\ pc' = "page"
    /\ UNCHANGED <<fdoc, outcome, raw, found, seen_bboxes, table_objs,
                   table_bboxes, rejected, words, free_words, y_centers,
                   lines_map, elements, row_cursor, wb, call, ret>>

\* lines 855-857: the page has no element; continue skips lines 859-899.
WriteSentinel ==
    /\ pc = "write"
    /\ elements = <<>>
    /\ wb' = [wb EXCEPT ![Len(wb)] =
                [Ws EXCEPT !.cells = Put(Ws.cells, 1, 1,
                    [CellAt(Ws.cells, 1, 1) EXCEPT !.value = Sentinel])]]
    /\ idx' = idx + 1
    /\ pc' = "page"
    /\ UNCHANGED <<fdoc, outcome, raw, found, seen_bboxes, table_objs,
                   table_bboxes, rejected, words, free_words, y_centers,
                   lines_map, elements, row_cursor, call, ret>>

\* lines 859-899
WriteElements ==
    /\ pc = "write"
    /\ elements # <<>>
    /\ LET r == ElementLoop(elements, 1,
                    [cells |-> Ws.cells, row_cursor |-> row_cursor])
           fitted == Autofit([Ws EXCEPT !.cells = r.cells])
       IN  /\ row_cursor' = r.row_cursor
           /\ wb' = [wb EXCEPT ![Len(wb)] =
                       [fitted EXCEPT !.cells = ApplyVisibleBorders(fitted.cells)]]
    /\ idx' = idx + 1
    /\ pc' = "page"
    /\ UNCHANGED <<fdoc, outcome, raw, found, seen_bboxes, table_objs,
                   table_bboxes, rejected, words, free_words, y_centers,
                   lines_map, elements, call, ret>>

\* The loop of line 804 has run over every page.
Finish ==
    /\ pc = "page"
    /\ idx = Len(fdoc)
    /\ pc' = "done"
    /\ UNCHANGED <<fdoc, idx, outcome, raw, found, seen_bboxes, table_objs,
                   table_bboxes, rejected, words, free_words, y_centers,
                   lines_map, elements, row_cursor, wb, call, ret>>

Next ==
    \/ StartPage
    \/ FindTables
    \/ FilterTables
    \/ PartitionWords
    \/ BuildLines
    \/ WriteSentinel
    \/ WriteElements
    \/ Finish

-----------------------------------------------------------------------------
(* Documents.                                                              *)

SeqUpTo(S, n) == UNION {[1..k -> S] : k \in 0..n}

BoxA == <<0, 0, 4, 4>>

BoxB == <<0, 0, 4, 5>>

BoxC == <<0, 1, 4, 5>>

BoxD == <<0, 1, 4, 4>>

BoxE == <<10, 0, 14, 4>>

GridGood == << <<<<"a">>, <<"b">>>>, <<<<"1">>, <<"2">>>> >>

GridRow == << <<<<"a">>, <<"b">>, <<"c">>, <<"d">>, <<"1">>>> >>

GridSparse == << <<<<"a">>, <<" ">>>>, <<<<"1">>, NoneVal>>, <<<<"2">>, <<>>>> >>

GridRagged == << <<<<"a">>>>, <<<<"1">>, <<"2", " ">>, <<"b">>>> >>

GridColumn == << <<<<"a">>>>, <<<<"b">>>>, <<<<"c">>>>, <<<<"d">>>> >>

Tbl(b, g) == [bbox |-> b, data |-> g]

Throws == [kind |-> "throw", tables |-> <<>>]

Nothing == [kind |-> "none", tables |-> <<>>]

Returns(ts) == [kind |-> "tables", tables |-> ts]

Tok(x0, y0, x1, y1, t) == [x0 |-> x0, y0 |-> y0, x1 |-> x1, y1 |-> y1, text |-> t]

TokIn == Tok(1, 2, 3, 4, <<"a", "b">>)

TokMargin == Tok(4, 2, 5, 4, <<"1", "2">>)

TokTop == Tok(20, 0, 24, 2, <<"c", "d">>)

TokNear == Tok(26, 3, 30, 5, <<"a">>)

TokLow == Tok(0, 40, 10, 42, <<"J", "o">>)

TokBlank == Tok(20, 40, 24, 42, <<" ">>)

Idle ==
    /\ pc = "page"
    /\ idx = 0
    /\ outcome = <<>>
    /\ raw = <<>>
    /\ found = <<>>
    /\ seen_bboxes = <<>>
    /\ table_objs = <<>>
    /\ table_bboxes = <<>>
    /\ rejected = <<>>
    /\ words = <<>>
    /\ free_words = <<>>
    /\ y_centers = <<>>
    /\ lines_map = <<>>
    /\ elements = <<>>
    /\ row_cursor = 1
    /\ wb = <<>>
    /\ call = <<>>
    /\ ret = <<>>

NoTables == <<Returns(<<>>), Returns(<<>>)>>

Pg(strategies, wds) == [strategies |-> strategies, words |-> wds]

\* Pages of the documents of Spec.
PageMenu ==
    { Pg(NoTables, <<>>),
      Pg(<<Throws, Nothing>>, <<TokBlank>>),
      Pg(NoTables, <<TokTop, TokLow>>),
      Pg(<<Returns(<<Tbl(BoxA, GridGood)>>), Nothing>>, <<TokIn>>),
      Pg(<<Returns(<<Tbl(BoxA, GridRow)>>), Returns(<<>>)>>, <<TokIn, TokTop>>),
      Pg(<<Returns(<<Tbl(BoxA, GridGood)>>), Returns(<<Tbl(BoxB, GridGood)>>)>>, <<>>),
      Pg(<<Throws, Returns(<<Tbl(BoxE, GridRagged), Tbl(BoxA, GridGood)>>)>>,
         <<TokLow, TokTop>>) }

NumPages == 2

Docs == UNION {[1..n -> PageMenu] : n \in 1..NumPages}

Init == Idle /\ fdoc \in Docs

Spec == Init /\ [][Next]_vars

\* One-page documents: chosen detections, every short word list.
Detections ==
    { NoTables,
      <<Returns(<<Tbl(BoxA, GridGood)>>), Returns(<<Tbl(BoxC, GridGood)>>)>>,
      <<Returns(<<Tbl(BoxA, GridRow)>>), Nothing>>,
      <<Returns(<<Tbl(BoxA, GridGood), Tbl(BoxE, GridGood)>>), Throws>>,
      <<Returns(<<Tbl(BoxA, GridSparse)>>), Returns(<<Tbl(BoxC, GridGood)>>)>>,
      <<Returns(<<Tbl(BoxA, GridRow)>>), Returns(<<Tbl(BoxB, GridGood)>>)>>,
      <<Returns(<<Tbl(BoxE, GridRagged)>>), Returns(<<Tbl(BoxA, GridColumn)>>)>>,
      <<Returns(<<Tbl(BoxE, GridGood), Tbl(BoxA, GridRagged)>>), Returns(<<>>)>> }

TokMenu == {TokIn, TokMargin, TokTop, TokNear, TokLow, TokBlank}

MaxWords == 2

PageDocs == {<<Pg(d, w)>> : d \in Detections, w \in SeqUpTo(TokMenu, MaxWords)}

InitPage == Idle /\ fdoc \in PageDocs

SpecPage == InitPage /\ [][Next]_vars

\* One-page documents: every short list of candidates, split over the
\* two strategies, a strategy without candidates also failing.
Candidates ==
    { Tbl(BoxA, GridGood), Tbl(BoxA, GridRow), Tbl(BoxB, GridGood),
      Tbl(BoxC, GridGood), Tbl(BoxD, GridGood), Tbl(BoxE, GridGood) }

MaxTables == 3

StrategyResults ==
    {Throws, Nothing} \cup {Returns(ts) : ts \in SeqUpTo(Candidates, MaxTables)}

StrategyPairs ==
    {p \in StrategyResults \X StrategyResults :
        Len(p[1].tables) + Len(p[2].tables) <= MaxTables}

TableDocs == {<<Pg(p, w)>> : p \in StrategyPairs, w \in {<<>>, <<TokIn>>}}

InitTables == Idle /\ fdoc \in TableDocs

SpecTables == InitTables /\ [][Next]_vars

-----------------------------------------------------------------------------
(* The geometry helpers on their own.                                      *)

IouCall ==
    /\ pc = "geometry"
    /\ call.fn = "iou"
    /\ ret = <<>>
    /\ ret' = <<BboxIou(call.a, call.b)>>
    /\ UNCHANGED <<fdoc, pc, idx, outcome, raw, found, seen_bboxes, table_objs,
                   table_bboxes, rejected, words, free_words, y_centers,
                   lines_map, elements, row_cursor, wb, call>>

ClusterCall ==
    /\ pc = "geometry"
    /\ call.fn = "cluster"
    /\ ret = <<>>
    /\ ret' = <<ClusterPositions(call.values, call.tolerance)>>
    /\ UNCHANGED <<fdoc, pc, idx, outcome, raw, found, seen_bboxes, table_objs,
                   table_bboxes, rejected, words, free_words, y_centers,
                   lines_map, elements, row_cursor, wb, call>>

\* The centers a call returned are clustered again.
ReclusterCall ==
    /\ pc = "geometry"
    /\ call.fn = "cluster"
    /\ Len(ret) = 1
    /\ ret' = Append(ret, ClusterPositions(ret[1], call.tolerance))
    /\ UNCHANGED <<fdoc, pc, idx, outcome, raw, found, seen_bboxes, table_objs,
                   table_bboxes, rejected, words, free_words, y_centers,
                   lines_map, elements, row_cursor, wb, call>>

NextGeometry == IouCall \/ ClusterCall \/ ReclusterCall

MaxCoord == 2

Coords == 0..MaxCoord

Box4 == Coords \X Coords \X Coords \X Coords

MaxVals == 3

MaxVal == 6

Halves == {Rat(n, 2) : n \in 0..MaxVal}

Tolerances == {<<-1, 2>>, Zero, <<1, 2>>, One, <<3, 2>>, LineTolerance}

Calls ==
    {[fn |-> "iou", a |-> a, b |-> b] : a \in Box4, b \in Box4}
    \cup {[fn |-> "cluster", values |-> v, tolerance |-> t] :
            v \in SeqUpTo(Halves, MaxVals), t \in Tolerances}

InitGeometry ==
    /\ fdoc = <<>>
    /\ pc = "geometry"
    /\ idx = 0
    /\ outcome = <<>>
    /\ raw = <<>>
    /\ found = <<>>
    /\ seen_bboxes = <<>>
    /\ table_objs = <<>>
    /\ table_bboxes = <<>>
    /\ rejected = <<>>
    /\ words = <<>>
    /\ free_words = <<>>
    /\ y_centers = <<>>
    /\ lines_map = <<>>
    /\ elements = <<>>
    /\ row_cursor = 1
    /\ wb = <<>>
    /\ call \in Calls
    /\ ret = <<>>

SpecGeometry == InitGeometry /\ [][NextGeometry]_vars

-----------------------------------------------------------------------------
(* Properties of the geometry helpers, under SpecGeometry.                 *)

IouDone == pc = "geometry" /\ call.fn = "iou" /\ ret # <<>>

\* A unit square of the grid lies in the box.
HasSquare(a, i, j) == a[1] <= i /\ i + 1 <= a[3] /\ a[2] <= j /\ j + 1 <= a[4]

Overlap(a, b) ==
    \E i \in Coords, j \in Coords : HasSquare(a, i, j) /\ HasSquare(b, i, j)

NonPositiveArea(a) == (a[3] - a[1]) * (a[4] - a[2]) <= 0

\* C9: for all boxes, zero-area and inverted ones included, iou(a, b) is a
\* value in [0, 1]; it is 0 when the boxes do not overlap or one of them
\* has non-positive area, and iou(a, a) = 1 for a box of positive width and
\* height.
C9_IouRange ==
    IouDone =>
        LET v == ret[1]
            a == call.a
            b == call.b
        IN  /\ v[2] > 0 /\ 0 <= v[1] /\ v[1] <= v[2]
            /\ (~Overlap(a, b) \/ NonPositiveArea(a) \/ NonPositiveArea(b))
                  => v = Zero
            /\ (a = b /\ a[3] > a[1] /\ a[4] > a[2]) => v = One

\* Two boxes that overlap in part.
C9_Witness ==
    /\ IouDone
    /\ call.a = <<0, 0, 2, 2>>
    /\ call.b = <<1, 1, 2, 2>>
    /\ ret[1] = <<1, 4>>

ClusterDone == pc = "geometry" /\ call.fn = "cluster" /\ Len(ret) = 2

\* C10: clustering the returned centers again with the same tolerance
\* returns the same centers, and any two returned centers differ by more
\* than the tolerance (each is a cluster of its own).
C10_ClusterIdempotent ==
    ClusterDone =>
        /\ ret[2] = ret[1]
        /\ \A i \in 1..Len(ret[1]), j \in 1..Len(ret[1]) :
              i < j => RLt(call.tolerance, RAbs(RSub(ret[1][j], ret[1][i])))

\* Three values in two clusters, clustered again.
C10_Witness ==
    /\ ClusterDone
    /\ Len(call.values) = 3
    /\ Len(ret[1]) = 2
    /\ call.tolerance = One
    /\ ret[2] = ret[1]

-----------------------------------------------------------------------------
(* Properties of the table detector and of the filter, under SpecTables.   *)

\* Both strategies of the page have run.
Detected ==
    \/ pc \in {"filter", "words", "lines", "write"}
    \/ (pc \in {"page", "done"} /\ idx > 0)

\* The tables of the page have been filtered.
Filtered ==
    \/ pc \in {"words", "lines", "write"}
    \/ (pc \in {"page", "done"} /\ idx > 0)

\* The page whose locals the state holds.
Current == IF pc \in {"page", "done"} THEN fdoc[idx] ELSE fdoc[idx + 1]

\* What a strategy offers: its tables, or nothing when it fails.
Offered(s) == IF s.kind \in {"throw", "none"} THEN <<>> ELSE s.tables

AllOffered == Offered(Current.strategies[1]) \o Offered(Current.strategies[2])

Iou(i, j) == BboxIou(raw[i].bbox, raw[j].bbox)

Above(v) == v[1] * 4 > 3 * v[2]

\* The table has 2 rows, a row of 2 cells and 4 cells with text.
PassesShape(data) ==
    /\ Len(data) >= 2
    /\ \E r \in 1..Len(data) : Len(data[r]) >= 2
    /\ Cardinality({rc \in (DOMAIN data) \X UNION {DOMAIN data[q] : q \in DOMAIN data} :
                      /\ rc[2] <= Len(data[rc[1]])
                      /\ data[rc[1]][rc[2]] # NoneVal
                      /\ \E k \in 1..Len(data[rc[1]][rc[2]]) :
                            data[rc[1]][rc[2]][k] \notin Whitespace}) >= 4

\* The candidate at position j of the page is in the final table set.
Retained(j) ==
    /\ raw[j].kept
    /\ \E k \in 1..Len(table_objs) : table_objs[k].bbox = raw[j].bbox

\* C2: any two distinct tables retained for a page have iou <= 0.75.
C2_RetainedApart ==
    \A i \in 1..Len(table_objs), j \in 1..Len(table_objs) :
        i # j => ~Above(BboxIou(table_objs[i].bbox, table_objs[j].bbox))

\* Two tables retained with an iou of exactly 0.75.
C2_Witness ==
    /\ Filtered
    /\ \E i \in 1..Len(table_objs), j \in 1..Len(table_objs) :
          i # j /\ BboxIou(table_objs[i].bbox, table_objs[j].bbox) = DedupThreshold

\* The rule of deduplication: candidates are taken in strategy order then
\* detection order, and one is discarded exactly when its iou with an
\* earlier accepted candidate is above 0.75.
DedupRule ==
    /\ Detected =>
          /\ Len(raw) = Len(AllOffered)
          /\ \A k \in 1..Len(raw) :
                /\ raw[k].bbox = AllOffered[k].bbox
                /\ raw[k].cfg =
                     (IF k <= Len(Offered(Current.strategies[1])) THEN 0 ELSE 1)
    /\ \A j \in 1..Len(raw) :
          ~raw[j].kept <=> \E i \in 1..(j - 1) : raw[i].kept /\ Above(Iou(i, j))
    /\ Len(found) = Cardinality({k \in 1..Len(raw) : raw[k].kept})
    /\ seen_bboxes = [k \in 1..Len(found) |-> found[k].bbox]

\* C4 as stated: the rule, and of any two candidates with iou > 0.75 the
\* earlier one alone survives, and any two with iou = 0 both survive.
C4_Original ==
    /\ DedupRule
    /\ \A i \in 1..Len(raw), j \in 1..Len(raw) :
          i < j =>
             /\ Above(Iou(i, j)) => (raw[i].kept /\ ~raw[j].kept)
             /\ Iou(i, j) = Zero => (raw[i].kept /\ raw[j].kept)

\* C4 amended: the rule; of two candidates with iou > 0.75 at most one
\* survives; when the two are the page's only candidates the earlier one
\* alone survives if their iou is above 0.75 and both survive if it is 0.
C4_Dedup ==
    /\ DedupRule
    /\ \A i \in 1..Len(raw), j \in 1..Len(raw) :
          (i < j /\ Above(Iou(i, j))) => ~(raw[i].kept /\ raw[j].kept)
    /\ (Detected /\ Len(raw) = 2 /\ Above(Iou(1, 2)))
          => (raw[1].kept /\ ~raw[2].kept)
    /\ (Detected /\ Len(raw) = 2 /\ Iou(1, 2) = Zero)
          => (raw[1].kept /\ raw[2].kept)

\* Three candidates in a chain: the second is a duplicate of the first,
\* the third of the second only, and the third survives.
C4_Witness ==
    /\ Detected
    /\ Len(raw) = 3
    /\ Above(Iou(1, 2)) /\ Above(Iou(2, 3)) /\ ~Above(Iou(1, 3))
    /\ raw[1].kept /\ ~raw[2].kept /\ raw[3].kept

\* C5 as stated: on a page with two candidates of iou > 0.75, the first
\* one, and it alone, is in the page's final table set.
C5_Original ==
    (Filtered /\ Len(raw) = 2 /\ Above(Iou(1, 2)))
        => (Retained(1) /\ ~Retained(2))

\* C5 amended: the second one is never retained, and the first one is
\* retained exactly when it passes the quality filter.
C5_EndToEnd ==
    (Filtered /\ Len(raw) = 2 /\ Above(Iou(1, 2)))
        => /\ ~Retained(2)
           /\ Retained(1) <=> PassesShape(AllOffered[1].data)
           /\ Len(table_objs) <= 1

\* Two overlapping candidates, one per strategy, the first one retained.
C5_Witness ==
    /\ Filtered
    /\ Len(raw) = 2
    /\ raw[1].cfg = 0 /\ raw[2].cfg = 1
    /\ Above(Iou(1, 2))
    /\ Retained(1) /\ ~Retained(2)

\* The strategy about to run fails.
Failing ==
    /\ pc = "find"
    /\ fdoc[idx + 1].strategies[Len(outcome) + 1].kind \in {"throw", "none"}

\* C8: a strategy that fails adds no candidate and changes none of the
\* accepted ones, the page goes on with the next strategy or with the
\* filter, and the candidates of the page are those of the strategies that
\* did not fail.
C8_StrategyFailure ==
    /\ [][Failing =>
            /\ found' = found
            /\ seen_bboxes' = seen_bboxes
            /\ raw' = raw
            /\ Len(outcome') = Len(outcome) + 1
            /\ pc' = (IF Len(outcome') < NumConfigs THEN "find" ELSE "filter")]_vars
    /\ [](Detected =>
            /\ Len(outcome) = NumConfigs
            /\ Len(raw) = Len(AllOffered)
            /\ \A k \in 1..Len(raw) : raw[k].bbox = AllOffered[k].bbox)
    /\ [](pc \in {"page", "find", "filter", "words", "lines", "write", "done"})

\* The first strategy threw, the second one's table was accepted.
C8_Witness ==
    /\ pc = "filter"
    /\ outcome = <<"throw", "tables">>
    /\ Len(found) = 1

-----------------------------------------------------------------------------
(* Properties of the composition of a page, under SpecPage.                *)

\* The elements of the page are composed and sorted.
Composed ==
    \/ pc = "write"
    \/ (pc \in {"page", "done"} /\ idx > 0)

Tokens == 1..Len(words)

Blank(k) == \A c \in 1..Len(words[k].text) : words[k].text[c] \in Whitespace

\* The center of the word lies in the box widened by margin on each side.
InBox(w, b, margin) ==
    /\ 2 * (b[1] - margin) <= w.x0 + w.x1 /\ w.x0 + w.x1 <= 2 * (b[3] + margin)
    /\ 2 * (b[2] - margin) <= w.y0 + w.y1 /\ w.y0 + w.y1 <= 2 * (b[4] + margin)

TablesHolding(k, margin) ==
    {t \in 1..Len(table_objs) : InBox(words[k], table_objs[t].bbox, margin)}

\* The groups of lines_map that hold the token, with its position there.
Places(k) ==
    {mp \in (1..Len(lines_map)) \X Tokens :
        /\ mp[2] <= Len(lines_map[mp[1]].line_words)
        /\ lines_map[mp[1]].line_words[mp[2]].i = k}

\* The Line elements made from a group that holds the token.
TokenLines(k) ==
    {e \in 1..Len(elements) :
        /\ elements[e].kind = "line"
        /\ \E mp \in Places(k) :
              elements[e].y = y_centers[lines_map[mp[1]].ridx + 1]}

InOneLine(k) == Cardinality(Places(k)) = 1 /\ Cardinality(TokenLines(k)) = 1

InNoLine(k) == Places(k) = {} /\ TokenLines(k) = {}

LineElementCount ==
    Cardinality({e \in 1..Len(elements) : elements[e].kind = "line"})

\* C1 as stated: every token is in exactly one Line, or its center is in
\* the bbox of exactly one retained table, never both.
C1_Original ==
    Composed =>
        \A k \in Tokens :
            \/ InOneLine(k) /\ TablesHolding(k, 0) = {}
            \/ InNoLine(k) /\ Cardinality(TablesHolding(k, 0)) = 1

\* C1 amended: every token with a text that is not blank is in exactly one
\* Line, or its center is in the bbox, widened by the margin of 1, of at
\* least one retained table, never both; a token with a blank text is in
\* no Line.
C1_Accounted ==
    Composed =>
        /\ LineElementCount = Len(lines_map)
        /\ \A k \in Tokens :
              IF Blank(k) THEN InNoLine(k)
              ELSE \/ InOneLine(k) /\ TablesHolding(k, 1) = {}
                   \/ InNoLine(k) /\ TablesHolding(k, 1) # {}

\* A token in two retained tables, another one in a Line.
C1_Witness ==
    /\ Composed
    /\ \E k \in Tokens : Cardinality(TablesHolding(k, 0)) = 2 /\ InNoLine(k)
    /\ \E k \in Tokens : InOneLine(k)

\* The position in detection order of a retained table.
RawPos(t) == CHOOSE j \in 1..Len(raw) : raw[j].kept /\ raw[j].bbox = t.bbox

\* C3: the elements are non-decreasing in y; at equal y a Table comes
\* before a Line and tables keep their detection order.
C3_Ordered ==
    Composed =>
        /\ Len(elements) = Len(table_objs) + Len(lines_map)
        /\ \A p \in 1..Len(elements), q \in 1..Len(elements) :
              p < q =>
                 /\ RLe(elements[p].y, elements[q].y)
                 /\ elements[p].y = elements[q].y =>
                       /\ ~(elements[p].kind = "line" /\ elements[q].kind = "table")
                       /\ (elements[p].kind = "table" /\ elements[q].kind = "table")
                             => RawPos(elements[p].table) < RawPos(elements[q].table)

\* Two tables and a Line at the same y.
C3_Witness ==
    /\ Composed
    /\ Len(elements) >= 3
    /\ elements[1].kind = "table"
    /\ elements[2].kind = "table"
    /\ elements[3].kind = "line"
    /\ elements[1].y = elements[3].y
    /\ elements[2].y = elements[3].y

InRejected(k) == \E r \in 1..Len(rejected) : InBox(words[k], rejected[r], 0)

\* C6: no table with rows < 2, cols < 2 or fewer than 4 non-empty cells is
\* retained; a discarded candidate gives no exclusion region, so a token in
\* its bbox is free text (unless a retained table excludes it), and the page
\* has only Line elements when it was the only candidate.
C6_WeakDiscarded ==
    /\ \A t \in 1..Len(table_objs) : PassesShape(table_objs[t].data)
    /\ table_bboxes = [t \in 1..Len(table_objs) |-> table_objs[t].bbox]
    /\ Filtered =>
          /\ Len(table_objs) + Len(rejected) = Len(found)
          /\ \A f \in 1..Len(found) :
                ~PassesShape(found[f].data) =>
                    /\ \E r \in 1..Len(rejected) : rejected[r] = found[f].bbox
                    /\ \A t \in 1..Len(table_bboxes) : table_bboxes[t] # found[f].bbox
    /\ Composed =>
          /\ \A e \in 1..Len(elements) :
                elements[e].kind = "table" =>
                    \E t \in 1..Len(table_objs) : table_objs[t] = elements[e].table
          /\ \A k \in Tokens :
                (InRejected(k) /\ ~Blank(k) /\ TablesHolding(k, 1) = {})
                    => InOneLine(k)
          /\ (Len(AllOffered) = 1 /\ ~PassesShape(AllOffered[1].data)) =>
                /\ \A e \in 1..Len(elements) : elements[e].kind = "line"
                /\ \A k \in Tokens : ~Blank(k) => InOneLine(k)

\* A single candidate of one row, discarded, and a token of its bbox in a
\* Line.
C6_Witness ==
    /\ Composed
    /\ Len(AllOffered) = 1
    /\ Len(AllOffered[1].data) = 1
    /\ Len(rejected) = 1
    /\ elements # <<>>
    /\ \E k \in Tokens : InRejected(k) /\ InOneLine(k)

-----------------------------------------------------------------------------
(* Properties of the page loop, under Spec.                                *)

SentinelSheet(sheet) ==
    /\ DOMAIN sheet.cells = {<<1, 1>>}
    /\ sheet.cells[<<1, 1>>].value = Sentinel

HasSentinel(sheet) ==
    \E k \in DOMAIN sheet.cells : sheet.cells[k].value = Sentinel

\* C7: a page without retained table and without free token gets a sheet
\* that holds the sentinel and nothing else, and the loop goes on with the
\* next page; a page with an element gets a sheet without sentinel; every
\* page of the document gets its sheet.
C7_Sentinel ==
    /\ [][pc = "write" =>
            /\ idx' = idx + 1
            /\ pc' = "page"
            /\ Len(wb') = Len(wb)
            /\ IF table_objs = <<>> /\ free_words = <<>>
               THEN SentinelSheet(wb'[Len(wb')])
               ELSE /\ ~HasSentinel(wb'[Len(wb')])
                    /\ DOMAIN wb'[Len(wb')].cells # {}]_vars
    /\ [](pc = "write" => (elements = <<>> <=> (table_objs = <<>> /\ free_words = <<>>)))
    /\ []((pc = "page" /\ idx < Len(fdoc)) => Len(wb) = idx)
    /\ [](pc = "done" =>
            /\ Len(wb) = Len(fdoc)
            /\ \A k \in 1..Len(wb) : DOMAIN wb[k].cells # {})

\* A sentinel sheet followed by the sheet of the next page, with content.
C7_Witness ==
    /\ pc = "done"
    /\ Len(wb) = 2
    /\ SentinelSheet(wb[1])
    /\ ~HasSentinel(wb[2])
    /\ DOMAIN wb[2].cells # {}

-----------------------------------------------------------------------------
(* _merge_fragmented_words on its own, with the dicts as objects: heap is  *)
(* the sequence of the dicts that exist, a list is a sequence of positions *)
(* of heap, dict(w) makes a new dict with the keys of w.                   *)

\* The loop of lines 331-346 over the list ids from position k on.
RECURSIVE MergeHeapLoop(_, _, _, _)
MergeHeapLoop(heap, ids, k, merged) ==
    IF k > Len(ids) THEN [heap |-> heap, merged |-> merged]
    ELSE LET w == heap[ids[k]]
             p == Last(merged)
             prev == heap[p]
         IN  IF ShouldMerge(prev, w)
             THEN MergeHeapLoop(
                    [heap EXCEPT ![p] =
                        [prev EXCEPT
                           !.text = Strip(prev.text \o Joiner(prev, w) \o w.text),
                           !.x1 = w.x1]],
                    ids, k + 1, merged)
             ELSE MergeHeapLoop(Append(heap, w), ids, k + 1,
                                Append(merged, Len(heap) + 1))

\* A slip of line 330: merged starts with words[0] itself, not a copy.
MergeHeapNoCopy(heap, ids) ==
    IF ids = <<>> THEN [heap |-> heap, merged |-> ids]
    ELSE MergeHeapLoop(heap, ids, 2, <<ids[1]>>)

\* lines 328-347
MergeHeap(heap, ids) ==
    IF ids = <<>> THEN [heap |-> heap, merged |-> ids]
    ELSE MergeHeapLoop(Append(heap, heap[ids[1]]), ids, 2, <<Len(heap) + 1>>)

\* The call _merge_fragmented_words(words): what it returns and what the
\* dicts of words hold afterwards.
MergeCall ==
    /\ pc = "merge"
    /\ ret = <<>>
    /\ LET ids == [k \in 1..Len(call.words) |-> k]
           r == MergeHeap(call.words, ids)
       IN  ret' = <<[merged |-> [j \in 1..Len(r.merged) |-> r.heap[r.merged[j]]],
                     words |-> [k \in 1..Len(ids) |-> r.heap[ids[k]]]]>>
    /\ UNCHANGED <<fdoc, pc, idx, outcome, raw, found, seen_bboxes, table_objs,
                   table_bboxes, rejected, words, free_words, y_centers,
                   lines_map, elements, row_cursor, wb, call>>

NextMerge == MergeCall

\* Lists of fragments on one line, left to right: texts as line 834 leaves
\* them (stripped, not empty), each fragment placed at a gap after the one
\* before it.
FragTexts ==
    { <<"J", "o">>, <<"h", "n">>, <<"J", "o", "h", "n">>,
      <<"1", "2", "1", "2">>, <<"a", "b", "c", "d">> }

FragGaps == {-3, 1, 12, 13}

MaxFrags == 3

Frags == [text : FragTexts, gap : FragGaps]

RECURSIVE FragWords(_, _, _)
FragWords(fs, k, acc) ==
    IF k > Len(fs) THEN acc
    ELSE LET x0 == IF k = 1 THEN 0 ELSE Last(acc).x1 + fs[k].gap
             x1 == IF k = 1 THEN x0 + 10 ELSE x0 + 9
         IN  FragWords(fs, k + 1,
                 Append(acc, [x0 |-> x0, x1 |-> x1, y0 |-> 0,
                              text |-> fs[k].text, i |-> k]))


InitMerge ==
    /\ fdoc = <<>>
    /\ pc = "merge"
    /\ idx = 0
    /\ outcome = <<>>
    /\ raw = <<>>
    /\ found = <<>>
    /\ seen_bboxes = <<>>
    /\ table_objs = <<>>
    /\ table_bboxes = <<>>
    /\ rejected = <<>>
    /\ words = <<>>
    /\ free_words = <<>>
    /\ y_centers = <<>>
    /\ lines_map = <<>>
    /\ elements = <<>>
    /\ row_cursor = 1
    /\ wb = <<>>
    /\ \E n \in 0..MaxFrags :
          \E fs \in [1..n -> Frags] :
              /\ IF n = 0 THEN TRUE ELSE fs[1].gap = 1
              /\ call = [fn |-> "merge", words |-> FragWords(fs, 1, <<>>)]
    /\ ret = <<>>

SpecMerge == InitMerge /\ [][NextMerge]_vars

-----------------------------------------------------------------------------
(* Properties of the fragment merger, under SpecMerge.                     *)

MergeDone == pc = "merge" /\ ret # <<>>

RECURSIVE Concat(_)
Concat(ts) == IF ts = <<>> THEN <<>> ELSE Head(ts) \o Concat(Tail(ts))

RECURSIVE Unspaced(_)
Unspaced(t) ==
    IF t = <<>> THEN <<>>
    ELSE IF Head(t) \in Whitespace THEN Unspaced(Tail(t))
    ELSE <<Head(t)>> \o Unspaced(Tail(t))

Texts(ws_) == [k \in 1..Len(ws_) |-> ws_[k].text]

Spaces(t) == Cardinality({k \in 1..Len(t) : t[k] \in Whitespace})

\* C11: the merger returns at most as many tokens as it received; the
\* merged texts, concatenated in order, are the input characters in their
\* order with nothing but separators added, at most one per merge; the
\* dicts of the input list hold afterwards what they held before; the
\* value form used by the page loop returns the same list.
C11_NoTextLoss ==
    MergeDone =>
        LET out == ret[1].merged
            in_ == call.words
        IN  /\ Len(out) <= Len(in_)
            /\ (in_ # <<>>) => (out # <<>>)
            /\ Unspaced(Concat(Texts(out))) = Concat(Texts(in_))
            /\ Spaces(Concat(Texts(out))) <= Len(in_) - Len(out)
            /\ ret[1].words = in_
            /\ out = MergeFragmentedWords(in_)

\* Three fragments merged into two tokens, one separator added.
C11_Witness ==
    /\ MergeDone
    /\ Len(call.words) = 3
    /\ Len(ret[1].merged) = 2
    /\ Spaces(Concat(Texts(ret[1].merged))) = 1
    /\ ret[1].words = call.words

\* The text is made of letters only, and of at least one.
Alphabetic(t) == Len(t) > 0 /\ {t[k] : k \in 1..Len(t)} \subseteq Letters

\* The texts of the tokens a..b joined left to right: no separator between
\* two alphabetic texts, a single space otherwise.
RECURSIVE JoinedText(_, _, _)
JoinedText(ws_, a, b) ==
    IF a = b THEN ws_[a].text
    ELSE LET p == JoinedText(ws_, a, b - 1)
             t == ws_[b].text
         IN  p \o (IF Alphabetic(p) /\ Alphabetic(t) THEN <<>> ELSE <<" ">>) \o t

\* The condition under which the token k joins the tokens a..k-1 already
\* merged into one.
JoinsGroup(ws_, a, k) ==
    LET p == JoinedText(ws_, a, k - 1)
        t == ws_[k].text
    IN  /\ ws_[k].x0 - ws_[k - 1].x1 <= 12
        /\ Len(p) <= 3 \/ Len(t) <= 3 \/ (Alphabetic(p) /\ Alphabetic(t))

\* The input positions that the merged token j covers.
GroupStart(out, j) == out[j].i

GroupEnd(out, in_, j) == IF j = Len(out) THEN Len(in_) ELSE out[j + 1].i - 1

ScenarioD ==
    << [x0 |-> 0, x1 |-> 10, y0 |-> 0, text |-> <<"J", "o">>, i |-> 1],
       [x0 |-> 11, x1 |-> 20, y0 |-> 0, text |-> <<"h", "n">>, i |-> 2] >>

\* C15: in one pass from left to right the next token joins the current,
\* possibly already merged, token exactly when next.x0 - prev.x1 <= 12 and
\* (one of the two texts has at most 3 characters or both are alphabetic);
\* the texts are joined without separator when both are alphabetic and with
\* one space otherwise; the merged token has the x0 of its first token and
\* the x1 of its last; "Jo" (0, 10) followed by "hn" (11, 20) gives the
\* single token "John".
C15_MergeRule ==
    MergeDone =>
        LET out == ret[1].merged
            in_ == call.words
        IN  /\ (in_ = <<>>) => (out = <<>>)
            /\ (in_ # <<>>) => (out # <<>> /\ GroupStart(out, 1) = 1)
            /\ \A j \in 1..Len(out) :
                  LET a == GroupStart(out, j)
                      b == GroupEnd(out, in_, j)
                  IN  /\ a <= b
                      /\ out[j].x0 = in_[a].x0
                      /\ out[j].x1 = in_[b].x1
                      /\ out[j].text = JoinedText(in_, a, b)
                      /\ \A k \in (a + 1)..b : JoinsGroup(in_, a, k)
                      /\ j > 1 => ~JoinsGroup(in_, GroupStart(out, j - 1), a)
            /\ (in_ = ScenarioD) =>
                  out = <<[x0 |-> 0, x1 |-> 20, y0 |-> 0,
                           text |-> <<"J", "o", "h", "n">>, i |-> 1]>>

\* "Jo" and "hn" at a gap of 1, merged into "John".
C15_Witness ==
    /\ MergeDone
    /\ call.words = ScenarioD
    /\ Len(ret[1].merged) = 1
    /\ ret[1].merged[1].text = <<"J", "o", "h", "n">>

-----------------------------------------------------------------------------
(* Pages of free text in bands, and _nearest_index on its own.             *)

BandJo == Tok(0, 0, 10, 2, <<"J", "o">>)

BandHn == Tok(11, 3, 20, 5, <<"h", "n">>)

BandNum == Tok(100, 5, 110, 7, <<"1", "2", "1", "2">>)

BandAbcd == Tok(100, 6, 110, 8, <<"a", "b", "c", "d">>)

BandAb == Tok(191, 8, 200, 10, <<"a", "b">>)

Band12 == Tok(205, 9, 215, 11, <<"1", "2">>)

BandCd == Tok(50, 12, 60, 14, <<"c", "d">>)

BandJohn == Tok(62, 13, 70, 15, <<"J", "o", "h", "n">>)

BandToks ==
    <<BandAb, BandJo, BandJohn, BandNum, BandHn, BandCd, Band12, BandAbcd>>

MaxLineWords == 5

RECURSIVE Listed(_)
Listed(S) ==
    IF S = {} THEN <<>>
    ELSE LET m == CHOOSE m \in S : \A n \in S : m <= n
         IN  <<BandToks[m]>> \o Listed(S \ {m})

Reverse(s) == [k \in 1..Len(s) |-> s[Len(s) + 1 - k]]

\* The words of a page: some of the tokens, in one order or the other.
BandLists ==
    LET picks == {S \in SUBSET (1..Len(BandToks)) : Cardinality(S) <= MaxLineWords}
    IN  {Listed(S) : S \in picks} \cup {Reverse(Listed(S)) : S \in picks}

BoxF == <<0, 20, 40, 30>>

GridTrailing ==
    << <<<<"a">>, <<"b">>>>, <<<<"1">>, <<"2">>>>, <<<<>>, NoneVal>> >>

BandDetections ==
    {NoTables, <<Returns(<<Tbl(BoxF, GridTrailing)>>), Nothing>>}

LineDocs == {<<Pg(d, w)>> : d \in BandDetections, w \in BandLists}

InitLines == Idle /\ fdoc \in LineDocs

\* The call _nearest_index(value, centers).
NearestCall ==
    /\ pc = "geometry"
    /\ call.fn = "nearest"
    /\ ret = <<>>
    /\ ret' = <<NearestIndex(call.value, call.centers)>>
    /\ UNCHANGED <<fdoc, pc, idx, outcome, raw, found, seen_bboxes, table_objs,
                   table_bboxes, rejected, words, free_words, y_centers,
                   lines_map, elements, row_cursor, wb, call>>

InitNearest ==
    /\ fdoc = <<>>
    /\ pc = "geometry"
    /\ idx = 0
    /\ outcome = <<>>
    /\ raw = <<>>
    /\ found = <<>>
    /\ seen_bboxes = <<>>
    /\ table_objs = <<>>
    /\ table_bboxes = <<>>
    /\ rejected = <<>>
    /\ words = <<>>
    /\ free_words = <<>>
    /\ y_centers = <<>>
    /\ lines_map = <<>>
    /\ elements = <<>>
    /\ row_cursor = 1
    /\ wb = <<>>
    /\ \E v \in Halves, c \in SeqUpTo(Halves, MaxVals) :
          call = [fn |-> "nearest", value |-> v, centers |-> c]
    /\ ret = <<>>

NextLines == Next \/ NearestCall

SpecLines == (InitLines \/ InitNearest) /\ [][NextLines]_vars

-----------------------------------------------------------------------------
(* Properties of line clustering and of _nearest_index, under SpecLines.   *)

\* The y0 values of the free tokens.
FreeYs == {free_words[k].y0 : k \in 1..Len(free_words)}

\* v is more than the tolerance of 3.2 above u.
Apart(u, v) == 5 * (v - u) > 16

\* The y0 values that open a cluster: no smaller value within the tolerance.
ClusterOpeners == {v \in FreeYs : \A u \in FreeYs : u < v => Apart(u, v)}

LineEls == {e \in 1..Len(elements) : elements[e].kind = "line"}

TableEls == {e \in 1..Len(elements) : elements[e].kind = "table"}

\* The page tokens (positions in words) that the group of center c holds.
GroupTokens(c) ==
    UNION {{lines_map[m].line_words[k].i : k \in 1..Len(lines_map[m].line_words)} :
             m \in {n \in 1..Len(lines_map) : lines_map[n].ridx = c - 1}}

\* The free tokens lie in two bands: each band within the tolerance, the
\* bands more than the tolerance apart.
TwoBands(lo, hi) ==
    /\ lo # {} /\ hi # {}
    /\ lo \cup hi = FreeYs
    /\ \A u \in lo, v \in lo : ~Apart(u, v)
    /\ \A u \in hi, v \in hi : ~Apart(u, v)
    /\ \A u \in lo, v \in hi : Apart(u, v)

\* C12: one Line element per cluster center of the free tokens' y0 values,
\* every center receiving a token; the words of a Line are in ascending x0;
\* a page without tables whose tokens form two bands more than the
\* tolerance apart has two Lines and no Table, the upper band first.
C12_OneLinePerCenter ==
    Composed =>
        /\ Len(y_centers) = Cardinality(ClusterOpeners)
        /\ Cardinality(LineEls) = Len(y_centers)
        /\ Len(lines_map) = Len(y_centers)
        /\ \A c \in 1..Len(y_centers) :
              /\ GroupTokens(c) # {}
              /\ Cardinality({e \in LineEls : elements[e].y = y_centers[c]}) = 1
        /\ \A e \in LineEls :
              /\ elements[e].spans # <<>>
              /\ \A q \in 1..(Len(elements[e].spans) - 1) :
                    elements[e].spans[q].x0 <= elements[e].spans[q + 1].x0
        /\ \A m \in 1..Len(lines_map) :
              \A q \in 1..(Len(lines_map[m].line_words) - 1) :
                  lines_map[m].line_words[q].x0 <= lines_map[m].line_words[q + 1].x0
        /\ \A lo \in SUBSET FreeYs :
              (table_objs = <<>> /\ TwoBands(lo, FreeYs \ lo)) =>
                  /\ Len(elements) = 2
                  /\ TableEls = {}
                  /\ RLt(elements[1].y, elements[2].y)
                  /\ elements[1].y = y_centers[1]
                  /\ elements[2].y = y_centers[2]
                  /\ GroupTokens(1) = {k \in Tokens : words[k].y0 \in lo}
                  /\ GroupTokens(2) = {k \in Tokens : words[k].y0 \notin lo}

\* Two bands of two tokens each, given in right-to-left order: two Lines.
C12_Witness ==
    /\ Composed
    /\ table_objs = <<>>
    /\ Len(words) = 4
    /\ words[1].x0 > words[2].x0
    /\ TwoBands({0, 3}, {12, 13})
    /\ Len(elements) = 2
    /\ Cardinality(GroupTokens(1)) = 2
    /\ Cardinality(GroupTokens(2)) = 2

NearestDone == pc = "geometry" /\ call.fn = "nearest" /\ ret # <<>>

Dist(value, center) == RAbs(RSub(value, center))

\* r is the lowest index (from 0) whose center is nearest to value.
LowestNearest(r, value, centers) ==
    /\ r \in 0..(Len(centers) - 1)
    /\ \A j \in 0..(Len(centers) - 1) :
          /\ RLe(Dist(value, centers[r + 1]), Dist(value, centers[j + 1]))
          /\ j < r => RLt(Dist(value, centers[r + 1]), Dist(value, centers[j + 1]))

\* The free token is as far from the center c as from the center c + 1.
Equidistant(w, c) ==
    /\ c + 1 <= Len(y_centers)
    /\ Dist(RInt(w.y0), y_centers[c]) = Dist(RInt(w.y0), y_centers[c + 1])

\* C16: for a non-empty list of centers nearest_index returns the lowest
\* index whose center minimises |value - center| (0 for an empty list);
\* every free token is in the group of that index, so a token equidistant
\* between two centers is in the line of the lower one.
C16_LowestNearest ==
    /\ NearestDone =>
          IF call.centers = <<>> THEN ret[1] = 0
          ELSE LowestNearest(ret[1], call.value, call.centers)
    /\ Composed =>
          \A m \in 1..Len(lines_map) :
              \A q \in 1..Len(lines_map[m].line_words) :
                  LET w == lines_map[m].line_words[q]
                  IN  /\ LowestNearest(lines_map[m].ridx, RInt(w.y0), y_centers)
                      /\ \A c \in 1..Len(y_centers) :
                            Equidistant(w, c) => lines_map[m].ridx # c

\* A free token equidistant between the first two centers, in the group of
\* the first.
C16_Witness ==
    /\ Composed
    /\ \E m \in 1..Len(lines_map) :
          /\ lines_map[m].ridx = 0
          /\ \E q \in 1..Len(lines_map[m].line_words) :
                Equidistant(lines_map[m].line_words[q], 1)

-----------------------------------------------------------------------------
(* Properties of the page loop: sheets and stages, under Spec.             *)

\* What the detector accepts on a page taken alone.
FoundOfPage(page) ==
    DedupLoop(StrategyTables(page.strategies[2]), 1, 1,
        DedupLoop(StrategyTables(page.strategies[1]), 1, 0,
                  [found |-> <<>>, seen |-> <<>>, raw |-> <<>>])).found

\* The elements of a page taken alone.
ElementsOfPage(page) ==
    LET kept == FilterLoop(FoundOfPage(page), 1,
                    [objs |-> <<>>, bboxes |-> <<>>, rejected |-> <<>>])
        fw == FreeLoop(page.words, 1, kept.bboxes, <<>>)
        centers == ClusterPositions(Y0s(fw), LineTolerance)
        map == SortedMap(AssignLoop(fw, 1, centers, <<>>))
    IN  SortByY(TableElements(kept.objs) \o
                (IF fw = <<>> THEN <<>> ELSE LineElements(map, centers)))

\* The sheet of a page taken alone: a cursor starting at 1, an empty sheet.
SheetOfPage(page) ==
    LET els == ElementsOfPage(page)
    IN  IF els = <<>>
        THEN [EmptySheet EXCEPT !.cells = Put(<<>>, 1, 1,
                                    [BlankCell EXCEPT !.value = Sentinel])]
        ELSE LET r == ElementLoop(els, 1, [cells |-> <<>>, row_cursor |-> 1])
                 fitted == Autofit([EmptySheet EXCEPT !.cells = r.cells])
             IN  [fitted EXCEPT !.cells = ApplyVisibleBorders(fitted.cells)]

\* The order of the stages of a page.
StageOrder ==
    { <<"page", "find">>, <<"find", "find">>, <<"find", "filter">>,
      <<"filter", "words">>, <<"words", "lines">>, <<"lines", "write">>,
      <<"write", "page">>, <<"page", "done">> }

\* A step adds sheets at the end only, writes to the sheet of its page
\* only, and only when writing; a stage leaves the results of the stages
\* before it alone.
StageKeeps ==
    /\ Len(wb') >= Len(wb)
    /\ \A k \in 1..(Len(wb) - 1) : wb'[k] = wb[k]
    /\ (pc # "write") => (\A k \in 1..Len(wb) : wb'[k] = wb[k])
    /\ (pc \in {"words", "lines", "write"}) =>
          (table_objs' = table_objs /\ table_bboxes' = table_bboxes)
    /\ (pc \in {"lines", "write"}) => (free_words' = free_words)
    /\ (pc = "write") => (elements' = elements)

\* C13: one sheet per page, in page order, sheet i being what page i alone
\* gives (nothing of another page, row cursor, exclusion regions or
\* elements, reaches it) and never touched once its page is written; the
\* stages of a page follow one another: detection and filter, then the
\* partition of the tokens and line clustering, then composition and
\* writing, each working on the finished result of the one before.
C13_PageOrder ==
    /\ [][(<<pc, pc'>> \in StageOrder)]_vars
    /\ [][StageKeeps]_vars
    /\ [](pc \in {"find", "filter", "words", "lines", "write"} =>
            /\ Len(wb) = idx + 1
            /\ \A k \in 1..idx : wb[k] = SheetOfPage(fdoc[k]))
    /\ [](pc = "write" => elements = ElementsOfPage(fdoc[idx + 1]))
    /\ [](pc \in {"page", "done"} =>
            /\ Len(wb) = idx
            /\ \A k \in 1..idx : wb[k] = SheetOfPage(fdoc[k]))
    /\ [](pc = "done" => idx = Len(fdoc))

\* Two pages with tables and text, the second sheet starting at row 1.
C13_Witness ==
    /\ pc = "done"
    /\ Len(wb) = 2
    /\ fdoc[1] # fdoc[2]
    /\ row_cursor > 1
    /\ wb[1] # wb[2]
    /\ \A k \in 1..2 :
          /\ wb[k] = SheetOfPage(fdoc[k])
          /\ Len(ElementsOfPage(fdoc[k])) >= 2
          /\ HasValue(CellAt(wb[k].cells, 1, 1))

-----------------------------------------------------------------------------
(* Properties of _cluster_positions, under SpecGeometry.                   *)

ClusterReturned == pc = "geometry" /\ call.fn = "cluster" /\ ret # <<>>

\* The orders in which n values can be given.
IndexOrders ==
    [n \in 0..MaxVals |->
        {p \in [1..n -> 1..n] : \A i \in 1..n, j \in 1..n : p[i] = p[j] => i = j}]

\* The sequences that hold the values of s in another order.
Reorderings(s) ==
    {[k \in 1..Len(s) |-> s[p[k]]] : p \in IndexOrders[Len(s)]}

\* The values of s with the first two exchanged, and with the first moved
\* to the end: every order of s is reached by repeating these two moves,
\* and every order is the input of some call.
Moves(s) ==
    IF Len(s) < 2 THEN {s}
    ELSE {<<s[2], s[1]>> \o SubSeq(s, 3, Len(s)), Tail(s) \o <<s[1]>>}

\* The values of q are in ascending order.
IsAscending(q) == \A k \in 1..(Len(q) - 1) : RLe(q[k], q[k + 1])

\* The positions of the ascending values where a cluster opens: the first,
\* and each value more than the tolerance above the value before it.
Openings(sv, tolerance) ==
    {k \in 1..Len(sv) : k = 1 \/ RLt(tolerance, RSub(sv[k], sv[k - 1]))}

\* The values at a..b are the j-th cluster: a is the j-th opening, b the
\* position before the next opening or the last position.
IsCluster(ops, n, j, a, b) ==
    /\ a \in ops
    /\ Cardinality({o \in ops : o <= a}) = j
    /\ a <= b
    /\ b = n \/ (b + 1) \in ops
    /\ \A k \in (a + 1)..b : k \notin ops

\* c is the arithmetic mean of the values at a..b.
IsMean(c, sv, a, b) ==
    /\ RSum(SubSeq(sv, a, b)) = Rat(c[1] * (b - a + 1), c[2])
    /\ RLe(sv[a], c) /\ RLe(c, sv[b])

\* C14: the values are taken in ascending order; a cluster opens exactly
\* at a value more than the tolerance above the last value accepted (the
\* value before it, not the mean of the cluster); one arithmetic mean is
\* returned per cluster, the means ascending, strictly for a tolerance
\* that is not negative; empty input gives the empty sequence; the result
\* is the same for every order of the input (it is the same after each of
\* the two moves that generate the orders).
C14_GreedyChaining ==
    ClusterReturned =>
        \E out \in {ret[1]}, tol \in {call.tolerance} :
            /\ (call.values = <<>>) => (out = <<>>)
            /\ \E sv \in Reorderings(call.values) :
                  /\ IsAscending(sv)
                  /\ \E ops \in {Openings(sv, tol)} :
                        /\ Len(out) = Cardinality(ops)
                        /\ \A j \in 1..Len(out) :
                              \E a \in 1..Len(sv), b \in 1..Len(sv) :
                                  /\ IsCluster(ops, Len(sv), j, a, b)
                                  /\ IsMean(out[j], sv, a, b)
            /\ \A j \in 1..(Len(out) - 1) :
                  /\ RLe(out[j], out[j + 1])
                  /\ RLe(Zero, tol) => RLt(out[j], out[j + 1])
            /\ \A q \in Moves(call.values) :
                  ClusterPositions(q, tol) = out

\* 2, 0, 1 with a tolerance of 1: one cluster by chaining (2 is more than
\* 1 above the mean of 0 and 1), its mean 1.
C14_Witness ==
    /\ ClusterReturned
    /\ call.values = <<RInt(2), RInt(0), RInt(1)>>
    /\ call.tolerance = One
    /\ ret[1] = <<One>>

-----------------------------------------------------------------------------
(* Properties of the grid writer, under SpecPage.                          *)

\* The elements of the page have been written to its sheet.
Written == pc \in {"page", "done"} /\ idx > 0 /\ elements # <<>>

\* The rows an element takes: 1 for a Line; for a Table its grid rows, at
\* least 1, and a separator row.
Advance(el) ==
    IF el.kind = "line" THEN 1
    ELSE (IF Len(el.table.data) < 1 THEN 1 ELSE Len(el.table.data)) + 1

\* The cursor before the element e (after the last one for e = Len + 1).
RECURSIVE StartRow(_, _)
StartRow(els, e) ==
    IF e = 1 THEN 1 ELSE StartRow(els, e - 1) + Advance(els[e - 1])

\* The cells the element e writes on an empty sheet from its cursor.
OwnCells(els, e) ==
    ElementLoop(<<els[e]>>, 1,
                [cells |-> <<>>, row_cursor |-> StartRow(els, e)]).cells

\* The element whose rows hold the row r.
Owner(els, r) ==
    {e \in 1..Len(els) : StartRow(els, e) <= r /\ r < StartRow(els, e + 1)}

\* A step that starts a page sets the cursor to 1; within a page the
\* cursor never decreases, and only writing moves it.
CursorStep ==
    /\ (pc = "page" /\ pc' = "find") => (row_cursor' = 1)
    /\ (pc # "page") => (row_cursor' >= row_cursor)
    /\ (pc \notin {"page", "write"}) => (row_cursor' = row_cursor)

\* C17: row_cursor is 1 at the start of each page and never decreases
\* within the page; after the elements it has advanced by 1 per Line and by
\* max(1, len(grid)) + 1 per Table; an element writes only in the rows from
\* its cursor up to, not including, the next cursor, so every written cell
\* of the sheet comes from the one element that owns its row, and the row
\* after a table's grid is blank.
C17_RowCursor ==
    /\ [][CursorStep]_vars
    /\ [](pc \in {"find", "filter", "words", "lines", "write"} => row_cursor = 1)
    /\ [](Written =>
            /\ row_cursor = StartRow(elements, Len(elements) + 1)
            /\ \A e \in 1..Len(elements) :
                  /\ StartRow(elements, e) < StartRow(elements, e + 1)
                  /\ \A k \in DOMAIN OwnCells(elements, e) :
                        /\ StartRow(elements, e) <= k[1]
                        /\ k[1] < StartRow(elements, e + 1)
                        /\ k \in DOMAIN Ws.cells
                        /\ Ws.cells[k].value = OwnCells(elements, e)[k].value
                        /\ Ws.cells[k].bold = OwnCells(elements, e)[k].bold
                  /\ elements[e].kind = "table" =>
                        \A k \in DOMAIN Ws.cells :
                            k[1] = StartRow(elements, e + 1) - 1 =>
                                (Ws.cells[k].value = NoneVal /\ ~Ws.cells[k].bold)
            /\ \A k \in DOMAIN Ws.cells :
                  (Ws.cells[k].value # NoneVal \/ Ws.cells[k].bold
                     \/ Ws.cells[k].border = "D0D7E2") =>
                      \E e \in Owner(elements, k[1]) :
                          k \in DOMAIN OwnCells(elements, e))

\* Two tables of two rows and a Line: cursors 1, 4, 7, then 8.
C17_Witness ==
    /\ Written
    /\ Len(elements) = 3
    /\ elements[1].kind = "table"
    /\ elements[2].kind = "table"
    /\ elements[3].kind = "line"
    /\ StartRow(elements, 3) = 7
    /\ row_cursor = 8

-----------------------------------------------------------------------------
(* Properties of the writing of a Line, under SpecLines.                   *)

\* The pairs of consecutive words before the word at position i (from 0)
\* whose gap exceeds 80.
WideGaps(spans, i) ==
    {p \in 1..i : spans[p + 1].x0 - spans[p].x1 > 80}

\* The column of the word at position i (from 0).
ColumnOf(spans, i) == 1 + i + Cardinality(WideGaps(spans, i))

\* C18: the word at position i of a Line is written in the row of the Line
\* and in column 1 + i + k, k the number of pairs of consecutive words
\* before it with next.x0 - prev.x1 > 80; the first word is in column 1, a
\* gap of 80 or less skips no column, the columns increase strictly, and
\* the row holds nothing else.
C18_LineColumns ==
    Written =>
        \A e \in LineEls :
            LET spans == elements[e].spans
                row == StartRow(elements, e)
                cols == {ColumnOf(spans, i) : i \in 0..(Len(spans) - 1)}
            IN  /\ ColumnOf(spans, 0) = 1
                /\ \A i \in 0..(Len(spans) - 1) :
                      /\ <<row, ColumnOf(spans, i)>> \in DOMAIN Ws.cells
                      /\ Ws.cells[<<row, ColumnOf(spans, i)>>].value = spans[i + 1].text
                /\ \A i \in 1..(Len(spans) - 1) :
                      /\ ColumnOf(spans, i) > ColumnOf(spans, i - 1)
                      /\ ColumnOf(spans, i) - ColumnOf(spans, i - 1) =
                            (IF spans[i + 1].x0 - spans[i].x1 > 80 THEN 2 ELSE 1)
                /\ \A k \in DOMAIN Ws.cells :
                      (k[1] = row /\ k[2] \notin cols) => Ws.cells[k].value = NoneVal

\* "John", then "1212" at a gap of exactly 80, then "ab" at a gap of 81:
\* columns 1, 2 and 4.
C18_Witness ==
    /\ Written
    /\ Len(elements) = 1
    /\ elements[1].kind = "line"
    /\ Len(elements[1].spans) = 3
    /\ elements[1].spans[2].x0 - elements[1].spans[1].x1 = 80
    /\ elements[1].spans[3].x0 - elements[1].spans[2].x1 = 81
    /\ Ws.cells[<<1, 1>>].value = <<"J", "o", "h", "n">>
    /\ Ws.cells[<<1, 2>>].value = <<"1", "2", "1", "2">>
    /\ Ws.cells[<<1, 3>>].value = NoneVal
    /\ Ws.cells[<<1, 4>>].value = <<"a", "b">>

-----------------------------------------------------------------------------
(* Properties of the borders of a finished sheet, under SpecLines.         *)

\* The sheets of the pages the loop is done with.
FinishedSheets == IF pc \in {"page", "done"} THEN 1..Len(wb) ELSE 1..(Len(wb) - 1)

\* The cell holds something other than nothing or blanks.
NonEmpty(cell) ==
    /\ cell.value # NoneVal
    /\ \E c \in 1..Len(cell.value) : cell.value[c] \notin Whitespace

\* The smallest rectangle that holds every non-empty cell of the sheet.
DataArea(sheet) ==
    LET used == {k \in DOMAIN sheet.cells : NonEmpty(sheet.cells[k])}
    IN  {k \in DOMAIN sheet.cells :
            /\ \E u \in used : u[1] <= k[1]
            /\ \E u \in used : u[1] >= k[1]
            /\ \E u \in used : u[2] <= k[2]
            /\ \E u \in used : u[2] >= k[2]}

Bordered(cell) == cell.border # "none"

\* The cells of the grids of the page's Table elements.
GridCells ==
    UNION {DOMAIN OwnCells(elements, e) : e \in TableEls}

\* C19 as stated: on a finished sheet a cell is bordered only inside the
\* smallest rectangle enclosing the non-empty cells.
C19_Original ==
    \A s \in FinishedSheets :
        \A k \in DOMAIN wb[s].cells :
            Bordered(wb[s].cells[k]) => k \in DataArea(wb[s])

\* C19 amended: on a finished sheet a cell carries the data-area border
\* (6B7280) exactly when it lies in the smallest rectangle enclosing the
\* non-empty cells of a sheet written from elements; outside that
\* rectangle the only bordered cells are the cells of a Table's grid, with
\* the thin table border (D0D7E2); a sentinel sheet has no bordered cell.
C19_Borders ==
    \A s \in FinishedSheets :
        LET sheet == wb[s]
        IN  IF SentinelSheet(sheet)
            THEN \A k \in DOMAIN sheet.cells : ~Bordered(sheet.cells[k])
            ELSE /\ DataArea(sheet) # {}
                 /\ \A k \in DOMAIN sheet.cells :
                       /\ (sheet.cells[k].border = "6B7280") <=> (k \in DataArea(sheet))
                       /\ (Bordered(sheet.cells[k]) /\ k \notin DataArea(sheet)) =>
                             /\ sheet.cells[k].border = "D0D7E2"
                             /\ ~NonEmpty(sheet.cells[k])
                             /\ k \in GridCells

\* A Line above a table whose last grid row is empty: the cells of that
\* row keep the table border outside the data area.
C19_Witness ==
    /\ Written
    /\ LineEls # {} /\ TableEls # {}
    /\ \E k \in DOMAIN Ws.cells :
          /\ k \notin DataArea(Ws)
          /\ Ws.cells[k].border = "D0D7E2"
    /\ \E k \in DataArea(Ws) : Ws.cells[k].border = "6B7280"

====
